---- MODULE Spec2Model ----
(***************************************************************************)
(* A model of crawler.py: the breadth-first crawl of a website (crawl),    *)
(* with the string functions it relies on (normalize_url, extract_links,   *)
(* is_internal_link) computed character by character.                      *)
(*                                                                         *)
(* A URL or an href is a sequence of one-character strings.  A fetched     *)
(* page is the set of the href attributes of its anchors.                  *)
(***************************************************************************)
EXTENDS Integers, Sequences, FiniteSets, TLC

\* ------------------------------------------------------------------------
\* Bounds of the model
\* ------------------------------------------------------------------------

\* The largest number of anchors a fetched page carries.
MaxLinks == 2

\* ------------------------------------------------------------------------
\* Python string operations used by the crawler
\* ------------------------------------------------------------------------

Range(s) == {s[i] : i \in 1..Len(s)}

\* s[i:] of Python, with the 1-based index i
From(s, i) == SubSeq(s, i, Len(s))

\* s[:i-1] of Python: the characters before the 1-based index i
Before(s, i) == SubSeq(s, 1, i - 1)

\* s.startswith(p)
StartsWith(s, p) == Len(p) <= Len(s) /\ SubSeq(s, 1, Len(p)) = p

\* s.endswith(p)
EndsWith(s, p) == Len(p) <= Len(s) /\ SubSeq(s, Len(s) - Len(p) + 1, Len(s)) = p

\* p in s
Contains(s, p) == \E i \in 1..(Len(s) - Len(p) + 1) : SubSeq(s, i, i + Len(p) - 1) = p

\* The 1-based index of the first character of s at or after index i that
\* belongs to the set cs; Len(s) + 1 when there is none.
RECURSIVE FindAny(_, _, _)
FindAny(s, cs, i) ==
    IF i > Len(s) THEN Len(s) + 1
    ELSE IF s[i] \in cs THEN i
    ELSE FindAny(s, cs, i + 1)

\* The 1-based index of the last "/" among the first i characters of s; 0
\* when there is none.
RECURSIVE LastSlash(_, _)
LastSlash(s, i) ==
    IF i = 0 THEN 0
    ELSE IF s[i] = "/" THEN i
    ELSE LastSlash(s, i - 1)

LowerLetters == <<"a", "b", "c", "d", "e", "f", "g", "h", "i", "j", "k", "l", "m",
                  "n", "o", "p", "q", "r", "s", "t", "u", "v", "w", "x", "y", "z">>

UpperLetters == <<"A", "B", "C", "D", "E", "F", "G", "H", "I", "J", "K", "L", "M",
                  "N", "O", "P", "Q", "R", "S", "T", "U", "V", "W", "X", "Y", "Z">>

\* chr.lower()
lower_char(c) ==
    IF c \in Range(UpperLetters)
    THEN LowerLetters[CHOOSE k \in 1..Len(UpperLetters) : UpperLetters[k] = c]
    ELSE c

\* str.lower()
lower(s) == [i \in 1..Len(s) |-> lower_char(s[i])]

\* str.rstrip("/"): every trailing "/" is removed
RECURSIVE rstrip_slash(_)
rstrip_slash(s) ==
    IF Len(s) > 0 /\ s[Len(s)] = "/"
    THEN rstrip_slash(SubSeq(s, 1, Len(s) - 1))
    ELSE s

\* A plausible variant: only one trailing "/" is removed (url[:-1]).
strip_one_slash(s) ==
    IF Len(s) > 0 /\ s[Len(s)] = "/" THEN SubSeq(s, 1, Len(s) - 1) ELSE s

\* ------------------------------------------------------------------------
\* urllib.parse, as far as the crawler uses it
\* ------------------------------------------------------------------------

SchemeChars == Range(LowerLetters) \cup Range(UpperLetters)
               \cup {"0", "1", "2", "3", "4", "5", "6", "7", "8", "9", "+", "-", "."}

Letters == Range(LowerLetters) \cup Range(UpperLetters)

\* urlsplit: the index of the ":" that ends the scheme; 0 when the URL has no scheme
SchemeEnd(url) ==
    LET i == FindAny(url, {":"}, 1)
    IN  IF /\ i > 1
           /\ i <= Len(url)
           /\ url[1] \in Letters
           /\ \A k \in 1..(i - 1) : url[k] \in SchemeChars
        THEN i
        ELSE 0

\* urlparse(url): the scheme; whether "//" introduces a netloc; the netloc,
\* between "//" and the next "/", "?" or "#"; the path, up to the next "?" or
\* "#"; and rest, the URL without its scheme and the ":" that ends it.
urlparse(url) ==
    LET colon      == SchemeEnd(url)
        rest       == From(url, colon + 1)
        has_netloc == StartsWith(rest, <<"/", "/">>)
        netloc_end == IF has_netloc THEN FindAny(rest, {"/", "?", "#"}, 3) ELSE 1
        after      == From(rest, netloc_end)
    IN  [ scheme     |-> lower(Before(url, colon)),
          has_scheme |-> colon # 0,
          has_netloc |-> has_netloc,
          netloc     |-> IF has_netloc THEN SubSeq(rest, 3, netloc_end - 1) ELSE <<>>,
          path       |-> Before(after, FindAny(after, {"?", "#"}, 1)),
          rest       |-> rest ]

\* urlparse(url).scheme
SchemeOf(url) == urlparse(url).scheme

\* urlparse(url).netloc
NetlocOf(url) == urlparse(url).netloc

\* urlparse(url).path
PathOf(url) == urlparse(url).path

\* urljoin(base, url), for the hrefs and bases of this model: no "." or ".."
\* segment, and no empty segment ("//") in a relative href or in the path of a
\* base it is joined to.
urljoin(base, url) ==
    LET b       == urlparse(base)
        u       == urlparse(url)
        origin  == b.scheme \o <<":", "/", "/">> \o b.netloc
        slash   == LastSlash(b.path, Len(b.path))
        basedir == IF slash = 0 THEN <<"/">> ELSE Before(b.path, slash + 1)
    IN  IF url = <<>> THEN base
        ELSE IF u.has_scheme /\ u.scheme # b.scheme THEN url
        ELSE IF u.has_netloc THEN b.scheme \o <<":">> \o u.rest
        ELSE IF u.path = <<>> THEN origin \o b.path \o u.rest
        ELSE IF StartsWith(u.rest, <<"/">>) THEN origin \o u.rest
        ELSE origin \o basedir \o u.rest

\* s.split("#")[0]
BeforeFragment(s) == Before(s, FindAny(s, {"#"}, 1))

\* ------------------------------------------------------------------------
\* The crawler's pure functions
\* ------------------------------------------------------------------------

IGNORED_EXTENSIONS ==
    { <<".", "p", "n", "g">>, <<".", "j", "p", "g">>, <<".", "j", "p", "e", "g">>,
      <<".", "g", "i", "f">>, <<".", "s", "v", "g">>, <<".", "w", "e", "b", "p">> }

\* A plausible variant: any netloc passes.
is_internal_link_any(link, base_url) == TRUE

is_internal_link(link, base_url) ==
    LET netloc == NetlocOf(link)
    IN  netloc = <<>> \/ netloc = NetlocOf(base_url)

normalize_url(url) == rstrip_slash(url)

\* resolved_url of extract_links
resolved_url(base_url, href) == BeforeFragment(urljoin(base_url, href))

\* resolved_url.lower().endswith(IGNORED_EXTENSIONS)
is_ignored(resolved) ==
    LET lowered == lower(resolved)
    IN  \E ext \in IGNORED_EXTENSIONS : EndsWith(lowered, ext)

\* The page is the set of the hrefs of its anchors.  The branch on the anchor
\* text 'Older posts' adds the link that the next line adds anyway.
extract_links(hrefs, base_url) ==
    {resolved_url(base_url, h) : h \in {x \in hrefs : ~is_ignored(resolved_url(base_url, x))}}

BlogDir == <<"/", "b", "l", "o", "g", "/">>

BlogPageDir == <<"/", "b", "l", "o", "g", "/", "p", "a", "g", "e", "/">>

BlogRoot == <<"/", "b", "l", "o", "g">>

is_on_blog_post(url) ==
    /\ Contains(url, BlogDir)
    /\ ~Contains(url, BlogPageDir)
    /\ ~EndsWith(url, BlogRoot)

\* the condition of the first "continue" of the loop over the links
skip_blog_link(on_blog_post, normalized_link) ==
    /\ on_blog_post
    /\ Contains(normalized_link, BlogDir)
    /\ ~Contains(normalized_link, BlogPageDir)

\* A plausible variant: the test at the head of the loop is missing.
already_visited_never(url, seen) == FALSE

\* current_url in visited
already_visited(url, seen) == url \in seen

\* A plausible variant: a link is followed whether or not its page was visited.
follow_link_always(normalized_link, base_url, seen) ==
    is_internal_link(normalized_link, base_url)

\* the condition under which a link becomes an edge and a frontier entry
follow_link(normalized_link, base_url, seen) ==
    is_internal_link(normalized_link, base_url) /\ normalized_link \notin seen

\* A plausible variant: the head of the queue is read and left in place (queue[0]).
popleft_peek(q) == q

\* what queue.popleft() leaves in the queue
popleft(q) == Tail(q)

\* A plausible variant: the edge is recorded with its ends exchanged.
add_edge_reversed(g, u, v) ==
    [nodes |-> g.nodes \cup {u, v}, edges |-> g.edges \cup {<<v, u>>}]

\* graph.add_edge(u, v)
add_edge(g, u, v) ==
    [nodes |-> g.nodes \cup {u, v}, edges |-> g.edges \cup {<<u, v>>}]

\* A plausible variant: the path of a new entry is the link alone.
extend_path_anew(url_path, normalized_link) == <<normalized_link>>

\* path + [normalized_link]
extend_path(url_path, normalized_link) == Append(url_path, normalized_link)

\* A plausible variant: the new entry goes to the head of the queue (appendleft).
appendleft(q, entry) == <<entry>> \o q

\* queue.append(entry)
append(q, entry) == Append(q, entry)

\* A plausible variant: the flag is not looked at.
stops_never(flag) == FALSE

\* A plausible variant: the first 404 ends the crawl, whatever the flag.
stops_always(flag) == TRUE

\* if stop_on_first_404: return graph
stops_on_404(flag) == flag

\* ------------------------------------------------------------------------
\* The sites crawled
\* ------------------------------------------------------------------------

Origin == <<"h", "t", "t", "p", ":", "/", "/", "e", ".", "c", "o">>

\* A site: the seed URL given to crawl, the hrefs its pages are made of, and
\* for some URLs the response the site gives whenever it answers a request
\* for them.  A URL without such a response is answered anew at each fetch:
\* by an error status, or by a page that carries at most MaxLinks of the
\* hrefs.  Any request can fail on the way (timeout, connection error).
NoPages == {}

PlainSite ==
    [ seed  |-> Origin \o <<"/">>,
      hrefs |-> { <<"/", "a">>, <<"/", "b", "/">>, <<"/", "c", "/", "/">> },
      pages |-> NoPages ]

MixedSite ==
    [ seed  |-> Origin,
      hrefs |-> { <<"/", "a", "#", "t">>, <<"m", "a", "i", "l", "t", "o", ":", "m">>,
                  <<"h", "t", "t", "p", ":", "/", "/", "o", ".", "c", "o", "/", "x">> },
      pages |-> NoPages ]

AssetSite ==
    [ seed  |-> Origin \o <<"/">>,
      hrefs |-> { <<"/", "i", ".", "p", "n", "g">>, <<"/", "i", ".", "P", "N", "G", "#", "f">>,
                  <<"/", "i", ".", "p", "n", "g", "?", "v">>, <<"/", "i", ".", "j", "p", "g", "/">> },
      pages |-> NoPages ]

BlogSite ==
    [ seed  |-> Origin \o <<"/", "b", "l", "o", "g", "/">>,
      hrefs |-> { <<"/", "b", "l", "o", "g", "/", "p">>, <<"q">>,
                  <<"/", "b", "l", "o", "g", "/", "p", "a", "g", "e", "/", "2">> },
      pages |-> NoPages ]

QuerySite ==
    [ seed  |-> Origin \o <<"/">>,
      hrefs |-> { <<"/", "b", "l", "o", "g", "/", "p", "?", "r", "=",
                    "/", "b", "l", "o", "g", "/", "p", "a", "g", "e", "/", "2">>,
                  <<"/", "b", "l", "o", "g", "/", "q">> },
      pages |-> NoPages ]

\* The seed page links to /a and /b, /a is not found, /b links back to the seed.
LoopSite ==
    [ seed  |-> Origin \o <<"/">>,
      hrefs |-> { <<"/", "a">>, <<"/", "b">>, <<"/">> },
      pages |-> { [url |-> Origin,
                   response |-> [status_code |-> 200, hrefs |-> {<<"/", "a">>, <<"/", "b">>}]],
                  [url |-> Origin \o <<"/", "a">>,
                   response |-> [status_code |-> 404, hrefs |-> {}]],
                  [url |-> Origin \o <<"/", "b">>,
                   response |-> [status_code |-> 200, hrefs |-> {<<"/">>}]] } ]

\* The seed page links to /a and /b, and neither is found.
TwinSite ==
    [ seed  |-> Origin \o <<"/">>,
      hrefs |-> { <<"/", "a">>, <<"/", "b">> },
      pages |-> { [url |-> Origin,
                   response |-> [status_code |-> 200, hrefs |-> {<<"/", "a">>, <<"/", "b">>}]],
                  [url |-> Origin \o <<"/", "a">>,
                   response |-> [status_code |-> 404, hrefs |-> {}]],
                  [url |-> Origin \o <<"/", "b">>,
                   response |-> [status_code |-> 404, hrefs |-> {}]] } ]

\* The seed page links to /a and /b, /a to /b and /c, /b to /c, and /c is not
\* found.
DeepSite ==
    [ seed  |-> Origin \o <<"/">>,
      hrefs |-> { <<"/", "a">>, <<"/", "b">>, <<"/", "c">> },
      pages |-> { [url |-> Origin,
                   response |-> [status_code |-> 200, hrefs |-> {<<"/", "a">>, <<"/", "b">>}]],
                  [url |-> Origin \o <<"/", "a">>,
                   response |-> [status_code |-> 200, hrefs |-> {<<"/", "b">>, <<"/", "c">>}]],
                  [url |-> Origin \o <<"/", "b">>,
                   response |-> [status_code |-> 200, hrefs |-> {<<"/", "c">>}]],
                  [url |-> Origin \o <<"/", "c">>,
                   response |-> [status_code |-> 404, hrefs |-> {}]] } ]

Sites == {PlainSite, MixedSite, AssetSite, BlogSite, QuerySite, LoopSite, TwinSite, DeepSite}

\* The pages a site can serve: sets of at most MaxLinks hrefs.
Pages(hrefs) == {b \in SUBSET hrefs : Cardinality(b) <= MaxLinks}

\* The orders in which "for link in links" can iterate over the set links.
Orders(S) == {o \in [1..Cardinality(S) -> S] : Range(o) = S}

\* requests.get answers with a status only for an http URL; any other scheme
\* raises InvalidSchema, a RequestException.
Fetchable(url) == SchemeOf(url) \in {<<"h", "t", "t", "p">>, <<"h", "t", "t", "p", "s">>}

\* The statuses for which raise_for_status raises HTTPError, 404 apart.
OtherErrorStatuses == {500}

\* a site of the given pages can answer r to requests.get(url)
Serves(pages, url, r) == \A p \in pages : p.url = url => p.response = r

\* ------------------------------------------------------------------------
\* crawl(start_url, stop_on_first_404)
\*
\* A step is one iteration of the while loop, or the end of the crawl.  The
\* locals response and links hold what the iteration bound; the values a
\* Python local keeps from an earlier iteration are never read, and are
\* shown as NoResponse and <<>>.
\* ------------------------------------------------------------------------

VARIABLES
    start_url,          \* argument of crawl
    stop_on_first_404,  \* argument of crawl
    site_hrefs,         \* the hrefs the pages of the crawled site are made of
    site_pages,         \* the responses the crawled site gives at every fetch
    graph,              \* nx.DiGraph: [nodes, edges]
    visited,            \* set of URLs
    queue,              \* deque of [url, path]
    error_404s,         \* list of <<url, path>>
    current_url,        \* local of the loop: the entry last dequeued
    path,               \* local of the loop: the entry last dequeued
    response,           \* local of the loop: the response this iteration received
    links,              \* local of the loop: the links this iteration extracted, as iterated
    branch,             \* the way the last iteration of the loop went
    pc,                 \* "crawling", "stopped" (return of line 104) or "finished" (line 140)
    returned,           \* the value returned by crawl, once it has returned
    error_log,          \* the file ERROR_LOG as this run wrote it
    graph_file,         \* the file GRAPH_FILENAME as this run wrote it
    fetch_log,          \* history: the URLs passed to requests.get, in order
    status_log,         \* history: the status each of these calls received (0: none), in order
    enqueued            \* history: the URLs ever put in the queue

vars == <<start_url, stop_on_first_404, site_hrefs, site_pages, graph, visited, queue, error_404s,
          current_url, path, response, links, branch, pc, returned, error_log,
          graph_file, fetch_log, status_log, enqueued>>

EmptyGraph == [nodes |-> {}, edges |-> {}]

NoResponse == [status_code |-> 0, hrefs |-> {}]

Init ==
    /\ \E site \in Sites :
         start_url = site.seed /\ site_hrefs = site.hrefs /\ site_pages = site.pages
    /\ stop_on_first_404 \in BOOLEAN
    /\ graph = EmptyGraph
    /\ visited = {}
    /\ queue = <<[url |-> normalize_url(start_url), path |-> <<normalize_url(start_url)>>]>>
    /\ error_404s = <<>>
    /\ current_url = <<>>
    /\ path = <<>>
    /\ response = NoResponse
    /\ links = <<>>
    /\ branch = "none"
    /\ pc = "crawling"
    /\ returned = [given |-> FALSE, graph |-> EmptyGraph]
    /\ error_log = [written |-> FALSE, records |-> <<>>]
    /\ graph_file = [written |-> FALSE, graph |-> EmptyGraph]
    /\ fetch_log = <<>>
    /\ status_log = <<>>
    /\ enqueued = {normalize_url(start_url)}

\* "while queue:" and "current_url, path = queue.popleft()"
Dequeue ==
    /\ pc = "crawling"
    /\ queue # <<>>
    /\ current_url' = Head(queue).url
    /\ path' = Head(queue).path

\* "visited.add(current_url)" and the call of requests.get
Visit ==
    /\ Dequeue
    /\ ~already_visited(Head(queue).url, visited)
    /\ visited' = visited \cup {Head(queue).url}
    /\ fetch_log' = Append(fetch_log, Head(queue).url)

\* an iteration that ends at "if current_url in visited: continue"
SkipVisited ==
    /\ Dequeue
    /\ already_visited(Head(queue).url, visited)
    /\ queue' = popleft(queue)
    /\ branch' = "skipped"
    /\ response' = NoResponse
    /\ links' = <<>>
    /\ UNCHANGED <<start_url, stop_on_first_404, site_hrefs, site_pages,
                   graph, visited, error_404s,
                   pc, returned, error_log, graph_file, fetch_log, status_log,
                   enqueued>>

\* an iteration that ends at "except requests.exceptions.RequestException: continue"
FetchFailed ==
    /\ Visit
    /\ queue' = popleft(queue)
    /\ branch' = "failed"
    /\ response' = NoResponse
    /\ status_log' = Append(status_log, NoResponse.status_code)
    /\ links' = <<>>
    /\ UNCHANGED <<start_url, stop_on_first_404, site_hrefs, site_pages,
                   graph, error_404s,
                   pc, returned, error_log, graph_file, enqueued>>

\* an iteration that ends at the "continue" of the HTTPError handler, the
\* status being another one than 404
FetchHttpError ==
    /\ Visit
    /\ Fetchable(Head(queue).url)
    /\ \E status \in OtherErrorStatuses :
           /\ Serves(site_pages, Head(queue).url, [status_code |-> status, hrefs |-> {}])
           /\ response' = [status_code |-> status, hrefs |-> {}]
           /\ status_log' = Append(status_log, status)
    /\ queue' = popleft(queue)
    /\ branch' = "http_error"
    /\ links' = <<>>
    /\ UNCHANGED <<start_url, stop_on_first_404, site_hrefs, site_pages,
                   graph, error_404s,
                   pc, returned, error_log, graph_file, enqueued>>

\* an iteration whose fetch is answered 404: the record, then "return graph"
\* or "continue"
FetchNotFound ==
    /\ Visit
    /\ Fetchable(Head(queue).url)
    /\ Serves(site_pages, Head(queue).url, [status_code |-> 404, hrefs |-> {}])
    /\ response' = [status_code |-> 404, hrefs |-> {}]
    /\ status_log' = Append(status_log, 404)
    /\ error_404s' = Append(error_404s, <<Head(queue).url, Head(queue).path>>)
    /\ queue' = popleft(queue)
    /\ branch' = "not_found"
    /\ IF stops_on_404(stop_on_first_404)
       THEN /\ pc' = "stopped"
            /\ returned' = [given |-> TRUE, graph |-> graph]
       ELSE UNCHANGED <<pc, returned>>
    /\ links' = <<>>
    /\ UNCHANGED <<start_url, stop_on_first_404, site_hrefs, site_pages,
                   graph, error_log,
                   graph_file, enqueued>>

\* A plausible variant: a link to a URL that the queue holds already is not
\* followed (the duplicates are removed when the links are enqueued).
RECURSIVE for_links_dedup(_, _, _, _, _, _, _)
for_links_dedup(o, url, url_path, base_url, seen, g, q) ==
    IF o = <<>> THEN [graph |-> g, queue |-> q]
    ELSE LET normalized_link == normalize_url(Head(o))
         IN  IF \/ skip_blog_link(is_on_blog_post(url), normalized_link)
                \/ ~follow_link(normalized_link, base_url, seen)
                \/ \E i \in 1..Len(q) : q[i].url = normalized_link
             THEN for_links_dedup(Tail(o), url, url_path, base_url, seen, g, q)
             ELSE for_links_dedup(Tail(o), url, url_path, base_url, seen,
                                  add_edge(g, url, normalized_link),
                                  append(q, [url  |-> normalized_link,
                                             path |-> extend_path(url_path, normalized_link)]))

\* A plausible variant: the loop is left after its first iteration.
for_links_once(o, url, url_path, base_url, seen, g, q) ==
    IF o = <<>> THEN [graph |-> g, queue |-> q]
    ELSE LET normalized_link == normalize_url(Head(o))
         IN  IF \/ skip_blog_link(is_on_blog_post(url), normalized_link)
                \/ ~follow_link(normalized_link, base_url, seen)
             THEN [graph |-> g, queue |-> q]
             ELSE [graph |-> add_edge(g, url, normalized_link),
                   queue |-> append(q, [url  |-> normalized_link,
                                        path |-> extend_path(url_path, normalized_link)])]

\* The loop "for link in links" run over the links in the order o, from the
\* graph g and the queue q, the visited set being seen: the graph and the
\* queue it leaves.
RECURSIVE for_links(_, _, _, _, _, _, _)
for_links(o, url, url_path, base_url, seen, g, q) ==
    IF o = <<>> THEN [graph |-> g, queue |-> q]
    ELSE LET normalized_link == normalize_url(Head(o))
         IN  IF skip_blog_link(is_on_blog_post(url), normalized_link)
             THEN for_links(Tail(o), url, url_path, base_url, seen, g, q)
             ELSE IF follow_link(normalized_link, base_url, seen)
             THEN for_links(Tail(o), url, url_path, base_url, seen,
                            add_edge(g, url, normalized_link),
                            append(q, [url  |-> normalized_link,
                                       path |-> extend_path(url_path, normalized_link)]))
             ELSE for_links(Tail(o), url, url_path, base_url, seen, g, q)

\* an iteration whose fetch succeeds: the links are extracted and followed
FetchOk ==
    /\ Visit
    /\ Fetchable(Head(queue).url)
    /\ \E hrefs \in {h \in Pages(site_hrefs) :
                       Serves(site_pages, Head(queue).url, [status_code |-> 200, hrefs |-> h])} :
         /\ response' = [status_code |-> 200, hrefs |-> hrefs]
         /\ \E o \in Orders(extract_links(hrefs, start_url)) :
              /\ links' = o
              /\ LET out == for_links(o, Head(queue).url, Head(queue).path,
                                      start_url, visited', graph, popleft(queue))
                 IN  /\ graph' = out.graph
                     /\ queue' = out.queue
                     /\ enqueued' = enqueued \cup
                            {out.queue[i].url : i \in Len(popleft(queue)) + 1 .. Len(out.queue)}
    /\ branch' = "ok"
    /\ status_log' = Append(status_log, 200)
    /\ UNCHANGED <<start_url, stop_on_first_404, site_hrefs, site_pages,
                   error_404s, pc, returned,
                   error_log, graph_file>>

\* A plausible variant: the log is written whether or not a 404 was recorded.
write_error_log_always(log, records) == [written |-> TRUE, records |-> records]

\* "if error_404s:" and the writing of ERROR_LOG: the file it leaves
write_error_log(log, records) ==
    IF records # <<>> THEN [written |-> TRUE, records |-> records] ELSE log

\* the queue is empty: the log of the 404s, the pickle of the graph, "return graph"
Finish ==
    /\ pc = "crawling"
    /\ queue = <<>>
    /\ error_log' = write_error_log(error_log, error_404s)
    /\ graph_file' = [written |-> TRUE, graph |-> graph]
    /\ returned' = [given |-> TRUE, graph |-> graph]
    /\ pc' = "finished"
    /\ UNCHANGED <<start_url, stop_on_first_404, site_hrefs, site_pages,
                   graph, visited, queue,
                   error_404s, current_url, path, response, links, branch, fetch_log,
                   status_log, enqueued>>

Next ==
    \/ SkipVisited
    \/ FetchFailed
    \/ FetchHttpError
    \/ FetchNotFound
    \/ FetchOk
    \/ Finish

Spec == Init /\ [][Next]_vars

\* The loop runs on: no iteration is put off forever.
FairSpec == Spec /\ WF_vars(Next)

\* ------------------------------------------------------------------------
\* Properties
\* ------------------------------------------------------------------------

\* the number of entries of the queue q that hold the URL u
Occurrences(q, u) == Cardinality({i \in 1..Len(q) : q[i].url = u})

\* the number of calls of requests.get made for the URL u
FetchCount(u) == Cardinality({i \in 1..Len(fetch_log) : fetch_log[i] = u})

\* the rank of the first fetch of the URL u
FetchRank(u) == CHOOSE i \in 1..Len(fetch_log) : fetch_log[i] = u

Last(s) == s[Len(s)]

\* C1: no URL is fetched more than once, the fetches never outnumber the
\* distinct URLs ever enqueued, and no step adds to the queue an entry for a
\* URL that is in the visited set.
C1_FetchedOnce ==
    /\ [](/\ \A u \in Range(fetch_log) : FetchCount(u) = 1
          /\ Len(fetch_log) <= Cardinality(enqueued))
    /\ [][\A u \in visited' : Occurrences(queue', u) <= Occurrences(queue, u)]_vars

\* A URL that was in the queue twice has been fetched, and its second entry
\* discarded.
C1_Witness ==
    /\ branch = "skipped"
    /\ Len(fetch_log) >= 3
    /\ current_url \in Range(fetch_log)

\* C2: with stop_on_first_404 set, the crawl has returned as soon as a 404 is
\* recorded: the record is the only one, it is the entry last dequeued and
\* last fetched, the value returned is the graph as it was before that fetch,
\* and nothing is dequeued or fetched from then on.
C2_EarlyStop ==
    /\ [](stop_on_first_404 /\ error_404s # <<>> =>
            /\ pc = "stopped"
            /\ error_404s = << <<current_url, path>> >>
            /\ branch = "not_found"
            /\ Last(fetch_log) = current_url
            /\ returned = [given |-> TRUE, graph |-> graph])
    /\ [][/\ pc # "stopped"
          /\ pc' = "stopped" => graph' = graph /\ returned'.graph = graph]_vars

\* An early stop after two pages were crawled, with entries left in the queue.
C2_Witness ==
    /\ pc = "stopped"
    /\ Len(fetch_log) >= 3
    /\ queue # <<>>
    /\ graph.edges # {}

\* the page whose link led to the URL of the first 404 record
ContainingPage == LET p == error_404s[1][2] IN p[Len(p) - 1]

\* C3 as stated: after an early stop, every edge of the graph returned has a
\* source that was processed no later than the page containing the link to
\* the 404 URL.
C3_NoEdgeAfterContainingPage ==
    (pc = "stopped" /\ Len(error_404s[1][2]) >= 2) =>
        \A e \in returned.graph.edges : FetchRank(e[1]) <= FetchRank(ContainingPage)

\* C3 as amended: after an early stop, every edge of the graph returned has a
\* source that was processed before the 404 URL was fetched.
C3_NoEdgeAfter404 ==
    (stop_on_first_404 /\ error_404s # <<>>) =>
        /\ returned.given
        /\ \A e \in returned.graph.edges \cup graph.edges :
               /\ e[1] \in Range(fetch_log)
               /\ FetchRank(e[1]) < FetchRank(error_404s[1][1])

\* An early stop whose graph holds an edge from a page processed after the
\* page containing the link to the 404 URL.
C3_Witness ==
    /\ pc = "stopped"
    /\ Len(error_404s[1][2]) >= 2
    /\ \E e \in returned.graph.edges : FetchRank(e[1]) > FetchRank(ContainingPage)

\* C4: the netloc of every edge target, in the graph and in the graph
\* returned, is empty or the netloc of the seed.
C4_InternalEdges ==
    \A e \in graph.edges \cup returned.graph.edges :
        NetlocOf(e[2]) \in {<<>>, NetlocOf(start_url)}

\* A page with a link to another host and a link without host was crawled,
\* and only the second is an edge.
C4_Witness ==
    /\ branch = "ok"
    /\ \E l \in Range(links) : NetlocOf(l) \notin {<<>>, NetlocOf(start_url)}
    /\ \E e \in graph.edges : e[1] = current_url /\ NetlocOf(e[2]) = <<>>

\* the links of the page just crawled that are internal and that the blog
\* rule does not skip
KeptLinks ==
    {normalize_url(l) : l \in
        {x \in Range(links) :
            /\ is_internal_link(normalize_url(x), start_url)
            /\ ~skip_blog_link(is_on_blog_post(current_url), normalize_url(x))}}

\* C5 as stated: once a page is crawled, the graph has an edge from it to
\* every internal link target it contains that the skip rules do not exclude.
C5_EveryInternalLink ==
    branch = "ok" => \A t \in KeptLinks : <<current_url, t>> \in graph.edges

\* C5 as amended: the graph has the edge for every such target that was not
\* in the visited set when the page was crawled; and no edge is ever removed.
C5_EveryUnvisitedInternalLink ==
    /\ [](branch = "ok" =>
            \A t \in KeptLinks \ visited : <<current_url, t>> \in graph.edges)
    /\ [][graph.edges \subseteq graph'.edges]_vars

\* A page was crawled that links to a new page and to a visited one.
C5_Witness ==
    /\ branch = "ok"
    /\ KeptLinks \ visited # {}
    /\ KeptLinks \cap visited # {}

\* the URL u has a path that ends, whatever the case, with an ignored extension
IsAssetUrl(u) ==
    LET lowered == lower(PathOf(u))
    IN  \E ext \in IGNORED_EXTENSIONS : EndsWith(lowered, ext)

\* the links recorded so far: the edges, and for each entry of the queue the
\* last step of its path
Discovered ==
    graph.edges \cup
    {<<queue[i].path[Len(queue[i].path) - 1], queue[i].url>> :
        i \in {j \in 1..Len(queue) : Len(queue[j].path) >= 2}}

\* C6: no edge and no entry of the queue leads to a URL whose path ends with
\* an ignored extension, whether the href had a trailing slash, a query
\* string or a fragment.
C6_AssetExclusion == \A d \in Discovered : ~IsAssetUrl(d[2])

\* the link to t of the page just crawled became an edge and an entry of the queue
Followed(t) ==
    /\ <<current_url, t>> \in graph.edges
    /\ \E i \in 1..Len(queue) : queue[i] = [url |-> t, path |-> Append(path, t)]

\* the links of the page just crawled that are internal and lead to a page
\* not yet visited
NewInternalLinks ==
    {t \in {normalize_url(l) : l \in Range(links)} :
        NetlocOf(t) \in {<<>>, NetlocOf(start_url)} /\ t \notin visited}

\* C7 as stated, the tests being made on the path of the URL: no link from a
\* blog post to a URL within /blog/ that is no /blog/page/ URL is recorded; a
\* new internal link from an index page or from the /blog listing to such a
\* URL is followed, and so is one from a blog post to a /blog/page/ URL.
C7_BlogLoopByPath ==
    /\ \A d \in Discovered :
           ~(/\ Contains(PathOf(d[1]), BlogDir)
             /\ ~Contains(PathOf(d[1]), BlogPageDir)
             /\ ~EndsWith(PathOf(d[1]), BlogRoot)
             /\ Contains(PathOf(d[2]), BlogDir)
             /\ ~Contains(PathOf(d[2]), BlogPageDir))
    /\ (/\ branch = "ok"
        /\ \/ Contains(PathOf(current_url), BlogPageDir)
           \/ EndsWith(PathOf(current_url), BlogRoot)) =>
           \A t \in NewInternalLinks :
               (Contains(PathOf(t), BlogDir) /\ ~Contains(PathOf(t), BlogPageDir))
                   => Followed(t)
    /\ (/\ branch = "ok"
        /\ Contains(PathOf(current_url), BlogDir)
        /\ ~Contains(PathOf(current_url), BlogPageDir)
        /\ ~EndsWith(PathOf(current_url), BlogRoot)) =>
           \A t \in NewInternalLinks : Contains(PathOf(t), BlogPageDir) => Followed(t)

\* What the crawl does ensure: the statement of C7 with every test made on
\* the whole URL string, query included.
BlogLoopByUrl ==
    /\ \A d \in Discovered :
           ~(/\ Contains(d[1], BlogDir)
             /\ ~Contains(d[1], BlogPageDir)
             /\ ~EndsWith(d[1], BlogRoot)
             /\ Contains(d[2], BlogDir)
             /\ ~Contains(d[2], BlogPageDir))
    /\ (/\ branch = "ok"
        /\ \/ Contains(current_url, BlogPageDir)
           \/ EndsWith(current_url, BlogRoot)) =>
           \A t \in NewInternalLinks :
               (Contains(t, BlogDir) /\ ~Contains(t, BlogPageDir)) => Followed(t)
    /\ (/\ branch = "ok"
        /\ Contains(current_url, BlogDir)
        /\ ~Contains(current_url, BlogPageDir)
        /\ ~EndsWith(current_url, BlogRoot)) =>
           \A t \in NewInternalLinks : Contains(t, BlogPageDir) => Followed(t)

\* A blog post was crawled whose link to another, unvisited, blog post was
\* not recorded, after an index page's link to a blog post was.
C7_Witness ==
    /\ branch = "ok"
    /\ Contains(current_url, BlogDir)
    /\ ~Contains(current_url, BlogPageDir)
    /\ \E t \in NewInternalLinks :
           /\ Contains(t, BlogDir)
           /\ ~Contains(t, BlogPageDir)
           /\ <<current_url, t>> \notin graph.edges
    /\ \E e \in graph.edges :
           /\ Contains(e[1], BlogPageDir)
           /\ Contains(e[2], BlogDir)
           /\ ~Contains(e[2], BlogPageDir)

\* the number of "/" that end s
TrailingSlashes(s) ==
    CHOOSE k \in 0..Len(s) :
        /\ \A i \in (Len(s) - k + 1)..Len(s) : s[i] = "/"
        /\ k = Len(s) \/ s[Len(s) - k] # "/"

\* the strings the crawl has passed to normalize_url: the seed and the links
\* last extracted
Normalized == {start_url} \cup Range(links)

\* C8 as stated: normalize_url removes one trailing "/" when there is one, and
\* nothing else, so that k >= 1 trailing slashes leave k - 1.
C8_StripsOneSlash ==
    \A u \in Normalized :
        normalize_url(u) = SubSeq(u, 1, Len(u) - (IF TrailingSlashes(u) >= 1 THEN 1 ELSE 0))

\* C8 as amended: normalize_url removes every trailing "/", and nothing else.
C8_StripsEverySlash ==
    \A u \in Normalized : normalize_url(u) = SubSeq(u, 1, Len(u) - TrailingSlashes(u))

\* A link that ends with two slashes was normalized.
C8_Witness ==
    /\ branch = "ok"
    /\ \E u \in Range(links) :
           /\ TrailingSlashes(u) >= 2
           /\ normalize_url(u) \in graph.nodes

\* the URLs held by the visited set, the queue, the graph and the 404 records
StoredUrls ==
    visited \cup graph.nodes
    \cup {queue[i].url : i \in 1..Len(queue)}
    \cup UNION {Range(queue[i].path) : i \in 1..Len(queue)}
    \cup {error_404s[i][1] : i \in 1..Len(error_404s)}
    \cup UNION {Range(error_404s[i][2]) : i \in 1..Len(error_404s)}

\* C9: normalizing twice is normalizing once, and every URL the crawl holds
\* is left as it is by normalize_url.
C9_Idempotent ==
    /\ \A u \in Normalized : normalize_url(normalize_url(u)) = normalize_url(u)
    /\ \A u \in StoredUrls : normalize_url(u) = u

\* A URL whose link ended with two slashes is visited and in a 404 record.
C9_Witness ==
    /\ \E u \in Range(links) : TrailingSlashes(u) >= 2 /\ normalize_url(u) \in visited
    /\ error_404s # <<>>
    /\ queue # <<>>

\* C10: every crawl ends, with an empty queue or by an early stop.
C10_Terminates == <>((pc = "finished" /\ queue = <<>>) \/ pc = "stopped")

\* A crawl of four pages has ended with an empty queue, entries of visited
\* pages having been discarded on the way.
C10_Witness ==
    /\ pc = "finished"
    /\ Len(fetch_log) >= 4
    /\ branch = "skipped"

\* C11: the graph file and the log of the 404s are written when the crawl
\* ends with an empty queue and at no other time: the graph file always, with
\* the graph returned, the log if and only if a 404 was recorded, with the
\* records; an early stop, which only a 404 under stop_on_first_404 brings,
\* writes neither.  A crawl with stop_on_first_404 that meets no 404 ends with
\* the graph file written.
C11_EndOfCrawlFiles ==
    /\ [](/\ pc = "finished" =>
                /\ graph_file = [written |-> TRUE, graph |-> graph]
                /\ returned = [given |-> TRUE, graph |-> graph]
                /\ error_log.written <=> error_404s # <<>>
                /\ error_log.written => error_log.records = error_404s
          /\ pc # "finished" => ~graph_file.written /\ ~error_log.written
          /\ pc = "stopped" => stop_on_first_404 /\ error_404s # <<>>)
    /\ <>(stop_on_first_404 =>
             \/ error_404s # <<>>
             \/ pc = "finished" /\ graph_file.written)

\* A crawl has ended with an empty queue and two 404 records: both files are
\* written.
C11_Witness ==
    /\ pc = "finished"
    /\ Len(error_404s) >= 2
    /\ error_log.written
    /\ graph_file.written
    /\ graph_file.graph.edges # {}

\* the edges and the entries of the queue that the step adds
NewEdges == graph'.edges \ graph.edges

NewEntries ==
    IF queue = <<>> THEN {} ELSE {queue'[i] : i \in Len(queue)..Len(queue')}

\* the URLs whose fetch was answered with the status 200
FetchedOk == {fetch_log[i] : i \in {j \in 1..Len(fetch_log) : status_log[j] = 200}}

\* the link to t of the page that the step crawls may be followed: it was
\* extracted from a page fetched with success, is internal, is not skipped,
\* and leads to a page that is not in the visited set, the page itself included
MayFollow(t) ==
    /\ branch' = "ok"
    /\ response'.status_code = 200
    /\ t \in {normalize_url(l) : l \in Range(links')}
    /\ is_internal_link(t, start_url)
    /\ ~skip_blog_link(is_on_blog_post(current_url'), t)
    /\ t \notin visited \cup {current_url'}

\* C12: a step adds an edge and an entry of the queue only together, from
\* the page it crawls and for a link that is internal, not skipped and not to
\* a visited page; so no edge is a self-loop, and the source of every edge is
\* a visited page fetched with success.  On the site whose seed page links to
\* /a and /b, with /a not found and /b linking back to the seed, the crawl
\* that no failure disturbs returns the edges (seed, /a) and (seed, /b) only.
C12_EdgeOnlyIfUnvisited ==
    /\ [][/\ \A e \in NewEdges :
                /\ e[1] = current_url'
                /\ MayFollow(e[2])
                /\ [url |-> e[2], path |-> Append(path', e[2])] \in NewEntries
          /\ \A entry \in NewEntries :
                /\ MayFollow(entry.url)
                /\ entry.path = Append(path', entry.url)
                /\ <<current_url', entry.url>> \in NewEdges]_vars
    /\ [](\A e \in graph.edges :
             /\ e[1] # e[2]
             /\ e[1] \in visited \cap FetchedOk)
    /\ []((/\ start_url = LoopSite.seed
           /\ site_pages = LoopSite.pages
           /\ returned.given
           /\ 0 \notin Range(status_log)) =>
              returned.graph.edges = { <<Origin, Origin \o <<"/", "a">> >>,
                                       <<Origin, Origin \o <<"/", "b">> >> })

\* The crawl of that site has ended: the seed, /a and /b were fetched, /a is
\* in the only 404 record, and the link of /b to the seed left no edge.
C12_Witness ==
    /\ site_pages = LoopSite.pages
    /\ pc = "finished"
    /\ Range(fetch_log) = graph.nodes
    /\ status_log \in {<<200, 404, 200>>, <<200, 200, 404>>}
    /\ error_404s = << <<Origin \o <<"/", "a">>, <<Origin, Origin \o <<"/", "a">> >> >> >>
    /\ Cardinality(graph.edges) = 2

\* the step fetches a URL and the fetch ends in a failure or in an error
\* status other than 404
FetchAbandoned ==
    /\ fetch_log' # fetch_log
    /\ Last(status_log') \notin {200, 404}

\* the ranks of the fetches that ended so
Abandoned == {i \in 1..Len(fetch_log) : status_log[i] \notin {200, 404}}

\* C13: a step whose fetch ends in a failure or in an error status other
\* than 404 puts the URL in the visited set, takes its entry off the queue
\* and changes nothing else of the graph, the queue, the 404 records and the
\* files, and the crawl goes on, whatever stop_on_first_404; the URL stays
\* visited and is never fetched again.
C13_AbandonedSilently ==
    /\ [][FetchAbandoned =>
            /\ branch' \in {"failed", "http_error"}
            /\ Last(fetch_log') = Head(queue).url
            /\ visited' = visited \cup {Head(queue).url}
            /\ queue' = Tail(queue)
            /\ pc' = "crawling"
            /\ UNCHANGED <<graph, error_404s, returned, error_log, graph_file>>]_vars
    /\ [](\A i \in Abandoned :
             /\ fetch_log[i] \in visited
             /\ FetchCount(fetch_log[i]) = 1
             /\ \A k \in 1..Len(error_404s) : error_404s[k][1] # fetch_log[i])

\* With stop_on_first_404 set, a fetch has failed, the next was answered with
\* an error status, and the crawl went on to discard a second entry of an
\* abandoned URL.
C13_Witness ==
    /\ stop_on_first_404
    /\ \E i \in 1..(Len(status_log) - 1) : status_log[i] = 0 /\ status_log[i + 1] = 500
    /\ branch = "skipped"
    /\ current_url \in {fetch_log[i] : i \in Abandoned}
    /\ pc = "crawling"

\* the fetches made, each with the status it received
Fetches == [i \in 1..Len(fetch_log) |-> <<fetch_log[i], status_log[i]>>]

IsNotFound(fetch) == fetch[2] = 404

\* the URLs whose fetch was answered 404, in the order of the fetches
NotFoundUrls ==
    LET found == SelectSeq(Fetches, IsNotFound)
    IN  [i \in 1..Len(found) |-> found[i][1]]

\* C14: a step whose fetch is answered 404 appends the URL and the path of
\* the entry dequeued to the 404 records and takes the entry off the queue,
\* and adds no edge; without stop_on_first_404 the crawl goes on.  The URLs
\* of the 404 records are the URLs answered 404, in the order of the fetches
\* and each once, and none of them is the source of an edge.
C14_NotFoundRecorded ==
    /\ [][(fetch_log' # fetch_log /\ Last(status_log') = 404) =>
            /\ error_404s' = Append(error_404s, <<Head(queue).url, Head(queue).path>>)
            /\ Last(fetch_log') = Head(queue).url
            /\ queue' = Tail(queue)
            /\ graph' = graph
            /\ ~stop_on_first_404 => pc' = "crawling" /\ UNCHANGED returned]_vars
    /\ [](/\ [i \in 1..Len(error_404s) |-> error_404s[i][1]] = NotFoundUrls
          /\ \A i, j \in 1..Len(error_404s) :
                 error_404s[i][1] = error_404s[j][1] => i = j
          /\ \A i \in 1..Len(error_404s) :
                 /\ error_404s[i][1] \in visited
                 /\ \A e \in graph.edges : e[1] # error_404s[i][1])

\* A crawl without stop_on_first_404 has ended with two 404 records, a page
\* having been fetched with success after the first of the two.
C14_Witness ==
    /\ ~stop_on_first_404
    /\ pc = "finished"
    /\ Len(error_404s) = 2
    /\ \E i, j \in 1..Len(status_log) : i < j /\ status_log[i] = 404 /\ status_log[j] = 200
    /\ Len(error_404s[2][2]) = 3

\* the entry at the head of the queue is for a URL of the visited set
HeadVisited == pc = "crawling" /\ queue # <<>> /\ Head(queue).url \in visited

\* C15: a link that may be followed is enqueued, and its edge added, even
\* when the queue holds its URL already, so that every entry of the queue but
\* the seed's comes with the edge from the page it was found on; a step that
\* dequeues an entry for a visited URL fetches nothing and changes neither
\* the visited set, nor the graph, nor the 404 records.
C15_DedupAtDequeue ==
    /\ [][\A t \in {normalize_url(l) : l \in Range(links')} :
             (fetch_log' # fetch_log /\ MayFollow(t)) =>
                 /\ [url |-> t, path |-> Append(path', t)] \in NewEntries
                 /\ <<current_url', t>> \in graph'.edges]_vars
    /\ [](\A i \in 1..Len(queue) :
             Len(queue[i].path) >= 2 =>
                 <<queue[i].path[Len(queue[i].path) - 1], queue[i].url>> \in graph.edges)
    /\ [][HeadVisited =>
            /\ branch' = "skipped"
            /\ queue' = Tail(queue)
            /\ UNCHANGED <<fetch_log, status_log, visited, graph, error_404s, pc>>]_vars

\* An entry was discarded for a URL that two pages had linked to before its
\* first visit: both edges are in the graph, and the URL was fetched once.
C15_Witness ==
    /\ branch = "skipped"
    /\ pc = "crawling"
    /\ FetchCount(current_url) = 1
    /\ \E e1, e2 \in graph.edges :
           e1[2] = current_url /\ e2[2] = current_url /\ e1[1] # e2[1]

\* p is a path from the seed to the URL u along edges of the graph
IsPathTo(p, u) ==
    /\ p # <<>>
    /\ p[1] = normalize_url(start_url)
    /\ p[Len(p)] = u
    /\ \A i \in 1..(Len(p) - 1) : <<p[i], p[i + 1]>> \in graph.edges

\* C16: the crawl starts with the queue that holds the normalized seed alone,
\* with the path made of it; and in every state the path of every entry of
\* the queue and of every 404 record is not empty, starts at the normalized
\* seed, ends at the URL of the entry or record, and follows edges of the
\* graph.
C16_PathInvariant ==
    /\ queue = <<[url |-> normalize_url(start_url), path |-> <<normalize_url(start_url)>>]>>
    /\ [](/\ \A i \in 1..Len(queue) : IsPathTo(queue[i].path, queue[i].url)
          /\ \A i \in 1..Len(error_404s) : IsPathTo(error_404s[i][2], error_404s[i][1]))

\* The queue holds an entry with a path of three URLs, and a 404 is recorded
\* with a path of three URLs.
C16_Witness ==
    /\ \E i \in 1..Len(queue) : Len(queue[i].path) = 3
    /\ \E i \in 1..Len(error_404s) : Len(error_404s[i][2]) = 3

\* the response that a site of the given pages gives for url
PageOf(pages, url) == (CHOOSE p \in pages : p.url = url).response

\* The crawl with stop_on_first_404 of a site of the given pages, run from the
\* queue q, the visited set seen and the graph g, no fetch failing and the
\* links of each page being iterated in one order, chosen once and for all:
\* the 404 records and the graph it returns.
RECURSIVE crawl_in_order(_, _, _, _, _)
crawl_in_order(pages, base_url, q, seen, g) ==
    IF q = <<>> THEN [error_404s |-> <<>>, graph |-> g]
    ELSE LET url      == Head(q).url
             url_path == Head(q).path
         IN  IF already_visited(url, seen)
             THEN crawl_in_order(pages, base_url, popleft(q), seen, g)
             ELSE IF PageOf(pages, url).status_code = 404
             THEN [error_404s |-> << <<url, url_path>> >>, graph |-> g]
             ELSE IF PageOf(pages, url).status_code # 200
             THEN crawl_in_order(pages, base_url, popleft(q), seen \cup {url}, g)
             ELSE LET links_of == extract_links(PageOf(pages, url).hrefs, base_url)
                      o        == CHOOSE x \in Orders(links_of) : TRUE
                      out      == for_links(o, url, url_path, base_url, seen \cup {url},
                                            g, popleft(q))
                  IN  crawl_in_order(pages, base_url, out.queue, seen \cup {url}, out.graph)

\* every URL fetched has its response fixed by the site, and no fetch failed
FixedRun ==
    /\ \A u \in Range(fetch_log) : \E p \in site_pages : p.url = u
    /\ 0 \notin Range(status_log)

\* C17: on a site whose responses are fixed, every crawl with
\* stop_on_first_404 that no failure disturbs and that stops at a 404 reports
\* the 404 record and returns the graph of the crawl that iterates the links
\* of each page in one fixed order: the order of iteration changes neither.
C17_EarlyStopDeterministic ==
    (stop_on_first_404 /\ pc = "stopped" /\ FixedRun) =>
        LET run == crawl_in_order(site_pages, start_url,
                       <<[url |-> normalize_url(start_url), path |-> <<normalize_url(start_url)>>]>>,
                       {}, EmptyGraph)
        IN  /\ error_404s = run.error_404s
            /\ returned.graph = run.graph

\* An early stop on the site whose seed page links to two pages not found.
C17_Witness ==
    /\ stop_on_first_404
    /\ pc = "stopped"
    /\ FixedRun
    /\ site_pages = TwinSite.pages
    /\ error_404s[1][1] = Origin \o <<"/", "b">>

\* the URLs held by the entries of the queue q
QueuedUrls(q) == {q[i].url : i \in 1..Len(q)}

\* the targets of the links of the page fetched at url, when the site fixes
\* that page, that are internal and that the crawl does not skip
LinksOf(url) ==
    {t \in {normalize_url(l) : l \in extract_links(PageOf(site_pages, url).hrefs, start_url)} :
        /\ NetlocOf(t) \in {<<>>, NetlocOf(start_url)}
        /\ ~skip_blog_link(is_on_blog_post(url), t)}

\* the URLs reachable from those of S by the links of the pages fetched with
\* success
RECURSIVE Reachable(_)
Reachable(S) ==
    LET more == S \cup UNION {LinksOf(u) : u \in S \cap FetchedOk}
    IN  IF more = S THEN S ELSE Reachable(more)

\* C18: a URL is visited only if it was discovered; a page fetched with
\* success leaves each of its internal links that is not skipped visited or
\* in the queue, and no step drops a URL from both; so that, when the crawl
\* ends with an empty queue, every URL discovered and every node of the graph
\* is visited, and on a site whose pages are fixed the visited set is the set
\* of the URLs reachable from the normalized seed by such links of the pages
\* fetched with success.
C18_ReachabilityComplete ==
    /\ [](/\ visited \subseteq enqueued
          /\ branch = "ok" => KeptLinks \subseteq visited \cup QueuedUrls(queue)
          /\ pc = "finished" =>
                /\ queue = <<>>
                /\ enqueued \subseteq visited
                /\ graph.nodes \subseteq visited
                /\ (\A u \in FetchedOk : \E p \in site_pages : p.url = u) =>
                       visited = Reachable({normalize_url(start_url)}))
    /\ [][visited \cup QueuedUrls(queue) \subseteq visited' \cup QueuedUrls(queue')]_vars

\* The crawl of the site DeepSite has ended with an empty queue, the fetch
\* of /b having failed: /c was reached through /a.
C18_Witness ==
    /\ site_pages = DeepSite.pages
    /\ pc = "finished"
    /\ Cardinality(FetchedOk) = 2
    /\ Cardinality(visited) = 4
    /\ \E i \in 1..Len(fetch_log) : fetch_log[i] = Origin \o <<"/", "b">> /\ status_log[i] = 0

\* the length of the shortest path of edges of the graph from the normalized
\* seed to the URL u, counted in URLs; 0 when there is none.  S holds the
\* URLs that paths of at most k URLs reach.
RECURSIVE GraphDepth(_, _, _)
GraphDepth(u, S, k) ==
    IF u \in S THEN k
    ELSE LET more == S \cup {e[2] : e \in {x \in graph.edges : x[1] \in S}}
         IN  IF more = S THEN 0 ELSE GraphDepth(u, more, k + 1)

\* the same along the links of the pages fetched with success, on a site
\* whose pages are fixed
RECURSIVE LinkDepth(_, _, _)
LinkDepth(u, S, k) ==
    IF u \in S THEN k
    ELSE LET more == S \cup UNION {LinksOf(p) : p \in S \cap FetchedOk}
         IN  IF more = S THEN 0 ELSE LinkDepth(u, more, k + 1)

\* C19: in every state the paths of the entries of the queue grow from head
\* to tail, by one URL at most in all; the paths of the entries dequeued
\* never shorten; and the path with which a URL is fetched, or recorded as a
\* 404, is as short as the shortest path to it in the graph, and on a site
\* whose pages are fixed as short as the shortest path of links to it through
\* the pages fetched with success.
C19_BreadthFirst ==
    /\ [](/\ \A i \in 1..(Len(queue) - 1) : Len(queue[i].path) <= Len(queue[i + 1].path)
          /\ queue # <<>> => Len(queue[Len(queue)].path) <= Len(queue[1].path) + 1
          /\ (pc = "crawling" /\ queue # <<>>) => Len(path) <= Len(queue[1].path)
          /\ branch \in {"failed", "http_error", "not_found", "ok"} =>
                /\ Len(path) = GraphDepth(current_url, {normalize_url(start_url)}, 1)
                /\ (\A u \in FetchedOk : \E p \in site_pages : p.url = u) =>
                       Len(path) = LinkDepth(current_url, {normalize_url(start_url)}, 1)
          /\ \A i \in 1..Len(error_404s) :
                /\ Len(error_404s[i][2]) =
                       GraphDepth(error_404s[i][1], {normalize_url(start_url)}, 1)
                /\ (\A u \in FetchedOk : \E p \in site_pages : p.url = u) =>
                       Len(error_404s[i][2]) =
                           LinkDepth(error_404s[i][1], {normalize_url(start_url)}, 1))
    /\ [][Len(path) <= Len(path')]_vars

\* On the site DeepSite the seed, /a and /b were fetched with success and /c,
\* two links away from the seed, is recorded as a 404 with a path of three
\* URLs; /b, which /a links to as well, was enqueued twice.
C19_Witness ==
    /\ site_pages = DeepSite.pages
    /\ branch = "not_found"
    /\ Cardinality(FetchedOk) = 3
    /\ Len(error_404s[1][2]) = 3
    /\ <<Origin \o <<"/", "a">>, Origin \o <<"/", "b">> >> \in graph.edges

====
